---------------------------- MODULE Spec2Model ----------------------------
(* A model of ampy/pyboard.py: the Pyboard session (raw-REPL protocol over *)
(* a byte channel), the TelnetToSerial relay, the transport selection of   *)
(* Pyboard.__init__ and the driver routines execfile / main.execbuffer.    *)
EXTENDS Integers, Sequences, FiniteSets, TLC

(***************************************************************************)
(* Bounds of the model.                                                    *)
(***************************************************************************)
\* most calls a caller makes on one session
MaxCalls == 3
\* longest normal-output / error-output of a simulated device response
MaxOut == 1
\* a command payload holds at most this many full chunks, and one byte more
MaxChunks == 2
\* longest device address tried
MaxAddrLen == 7
\* largest read_timeout (seconds) a relay is built with
MaxReadTimeout == 1
\* most bytes the relayed device sends after the login
MaxFeed == 3
\* largest size asked of TelnetToSerial.read
MaxSize == 2
\* largest rawdelay (seconds) a session is constructed with
MaxRawDelay == 2
\* most calls of enter_raw_repl followed when several sessions exist
MaxEnters == 2

(***************************************************************************)
(* Wire literals (pyboard.py).                                             *)
(***************************************************************************)
EOT == 4
OK == <<79, 75>>
CtrlC == <<13, 3, 3>>
CtrlA == <<13, 1>>
CtrlB == <<13, 2>>
\* b'raw REPL; CTRL-B to exit\r\n'
RawBanner ==
  <<114, 97, 119, 32, 82, 69, 80, 76, 59, 32, 67, 84, 82, 76, 45, 66, 32,
    116, 111, 32, 101, 120, 105, 116, 13, 10>>
ChunkSize == 256
\* read_timeout=None
NoTimeout == -1

(***************************************************************************)
(* Byte-string helpers.  A byte on the channel is a pair <<value, origin>>: *)
(* the value is what the code sees, the origin is the number of the call   *)
(* whose write made the device emit it (history only, never read by the    *)
(* modelled code).                                                         *)
(***************************************************************************)
Min(a, b) == IF a < b THEN a ELSE b

Vals(s) == [i \in 1..Len(s) |-> s[i][1]]

Origins(s) == {s[i][2] : i \in 1..Len(s)}

Tag(bytes, no) == [i \in 1..Len(bytes) |-> <<bytes[i], no>>]

\* bytes.endswith(e)
EndsWith(d, e) ==
  /\ Len(d) >= Len(e)
  /\ SubSeq(d, Len(d) - Len(e) + 1, Len(d)) = e

\* e in d
Contains(d, e) ==
  \E i \in 0..(Len(d) - Len(e)) : SubSeq(d, i + 1, i + Len(e)) = e

Drop(s, k) == SubSeq(s, k + 1, Len(s))

Take(s, k) == SubSeq(s, 1, Min(k, Len(s)))


Seqs(S, n) == UNION {[1..k -> S] : k \in 0..n}

(***************************************************************************)
(* State.                                                                  *)
(***************************************************************************)
VARIABLES
  linkPrompt,  \* environment: every byte in flight arrives within a read timeout
  devGood,     \* environment: the device answers every request as the protocol says
  chan,        \* Pyboard.serial: "unopened", "open" or "closed"
  inbuf,       \* bytes received by the serial port and not yet read
  wire,        \* bytes the device has emitted that have not arrived yet
  devMode,     \* the device's own mode: "friendly" or "raw"
  callNo,      \* number of calls made on the session
  hist,        \* the calls made so far, each with its outcome
  last,        \* what the last call did and gave back (see Res)
  submitted,   \* the payload given to the last exec call
  closes,      \* number of calls of Pyboard.close
  prog,        \* who drives the session: "api", "execfile" or "execbuffer"
  pc,          \* position of the driver routine
  ret_err,     \* the local ret_err of main.execbuffer
  device,      \* the address string given to Pyboard.__init__
  transport,   \* the transport __init__ chose: "none", "telnet" or "serial"
  relay,       \* the TelnetToSerial object: "none", "ready" or "failed"
  read_timeout,  \* TelnetToSerial.read_timeout
  tnSent,      \* what was written to the telnet connection, in order
  tnReads,     \* what each tn.read_until of the login returned, in order
  tnFed,       \* number of bytes the relayed device has sent after the login
  fifo,        \* TelnetToSerial.fifo
  fifoInit,    \* whether TelnetToSerial.fifo exists
  rpc,         \* position in TelnetToSerial.read: "idle" or "loop"
  size,        \* the size asked of the read in progress
  timeout_count,  \* the local of TelnetToSerial.read
  emptyPolls,  \* consecutive polls of the read in progress that brought nothing
  rret,        \* what the last read or inWaiting returned
  delivered,   \* the bytes the reads have returned so far, in order
  _rawdelay,   \* the module global _rawdelay
  sessions,    \* the Pyboard objects constructed, each with its rawdelay argument
  slept        \* the pauses enter_raw_repl has made: which session, how long

sessVars ==
  <<linkPrompt, devGood, chan, inbuf, wire, devMode, callNo, hist, last,
    submitted, closes, prog, pc, ret_err>>

addrVars == <<device, transport>>

delayVars == <<_rawdelay, sessions, slept>>

relayVars ==
  <<relay, read_timeout, tnSent, tnReads, tnFed, fifo, fifoInit, rpc, size,
    timeout_count, emptyPolls, rret, delivered>>

vars == <<sessVars, addrVars, relayVars, delayVars>>

(***************************************************************************)
(* The device (the other end of the channel).  It reacts to what the host  *)
(* writes; its reply is put in flight at once and arrives later.           *)
(***************************************************************************)
\* the '>' prompt byte
Prompt == <<62>>

OutBytes == {97}

Outs == Seqs(OutBytes, MaxOut)

Dead(mode) == IF devGood THEN {} ELSE {[reply |-> <<>>, mode |-> mode]}

ReactInterrupt(mode) ==
  {[reply |-> t, mode |-> mode] : t \in {<<>>, Prompt}}

ReactEnterRaw(mode) ==
  {[reply |-> RawBanner \o t, mode |-> "raw"] : t \in {<<>>, Prompt}}
    \cup Dead(mode)

ReactExitRaw(mode) ==
  {[reply |-> t, mode |-> "friendly"] : t \in {<<>>, Prompt}}

ReactRun(mode) ==
  IF mode = "raw"
  THEN {[reply |-> OK \o n \o <<EOT>> \o e \o <<EOT>> \o t, mode |-> mode] :
          n \in Outs, e \in Outs, t \in {<<>>, Prompt}} \cup Dead(mode)
  ELSE {[reply |-> t, mode |-> mode] : t \in {<<>>, Prompt}}

DeviceReact(mode, bytes) ==
  CASE bytes = CtrlC -> ReactInterrupt(mode)
    [] bytes = CtrlA -> ReactEnterRaw(mode)
    [] bytes = CtrlB -> ReactExitRaw(mode)
    [] bytes = <<EOT>> -> ReactRun(mode)
    [] OTHER -> {[reply |-> <<>>, mode |-> mode]}

(***************************************************************************)
(* The serial channel.  A channel value is [inbuf, wire, mode]; an         *)
(* operation yields the set of its possible results, one per way the bytes *)
(* in flight can arrive while it runs.                                     *)
(***************************************************************************)
Arrive(c, n) ==
  [c EXCEPT !.inbuf = @ \o SubSeq(c.wire, 1, n), !.wire = Drop(@, n)]

\* least k with s[1..k] ending in e; 0 when there is none
FirstEnd(s, e) ==
  LET ks == {k \in 1..Len(s) : EndsWith(Vals(SubSeq(s, 1, k)), e)}
  IN IF ks = {} THEN 0 ELSE CHOOSE k \in ks : \A j \in ks : k <= j

\* how many of the bytes in flight arrive while a blocking read that needs
\* `need` of them waits: on a prompt link at least those it needs; on a slow
\* link none, one too few, just enough, or all of them
Arrivals(c, need) ==
  LET w == Len(c.wire)
      k == Min(need, w)
  IN IF linkPrompt THEN {k, w}
     ELSE {0, IF k > 0 THEN k - 1 ELSE 0, k, w}

NeedUntil(c, e) ==
  LET k == FirstEnd(c.inbuf \o c.wire, e)
  IN IF k = 0 THEN Len(c.wire)
     ELSE IF k <= Len(c.inbuf) THEN 0 ELSE k - Len(c.inbuf)

\* serial.read_until(ending): up to and with the first `ending`, or what
\* arrived before the timeout
SerialReadUntil(c, e) ==
  {LET a == Arrive(c, n)
       k == FirstEnd(a.inbuf, e)
       m == IF k = 0 THEN Len(a.inbuf) ELSE k
   IN [data |-> SubSeq(a.inbuf, 1, m), c |-> [a EXCEPT !.inbuf = Drop(@, m)]] :
     n \in Arrivals(c, NeedUntil(c, e))}

\* serial.read(size): size bytes, or fewer on timeout
SerialRead(c, sz) ==
  {LET a == Arrive(c, n)
       m == Min(sz, Len(a.inbuf))
   IN [data |-> SubSeq(a.inbuf, 1, m), c |-> [a EXCEPT !.inbuf = Drop(@, m)]] :
     n \in Arrivals(c, IF sz > Len(c.inbuf) THEN sz - Len(c.inbuf) ELSE 0)}

\* serial.flushInput(): drops what has arrived, not what is still in flight
SerialFlushInput(c) ==
  {[Arrive(c, n) EXCEPT !.inbuf = <<>>] : n \in {0, Len(c.wire)}}

\* serial.write(bytes), call number `no`: the device reacts
SerialWrite(c, bytes, no) ==
  {[c EXCEPT !.wire = @ \o Tag(r.reply, no), !.mode = r.mode] :
     r \in DeviceReact(c.mode, bytes)}

Op(name, arg) == [op |-> name, arg |-> arg]

(***************************************************************************)
(* Pyboard methods.  Each yields the set of its possible results, one per  *)
(* behaviour of the device and the link.  A result records                 *)
(*   c        the channel afterwards                                       *)
(*   ops      the channel operations performed, in order                   *)
(*   outcome  "ok", or the message of the exception raised                 *)
(*   value    the value returned (<<>> when nothing is returned)           *)
(*   carried  the further arguments of the exception raised                *)
(*   ack      the bytes exec_raw_no_follow read as the ack                 *)
(*   sink     the chunks handed to data_consumer                           *)
(*   followIn the device bytes ahead of follow when it started             *)
(*   followed whether follow ran                                           *)
(*   untils   what each Pyboard.read_until of the call returned, in order  *)
(***************************************************************************)
ErrEnter == "could not enter raw repl"
ErrExec == "could not exec command"
ErrFirstEOF == "timeout waiting for first EOF reception"
ErrSecondEOF == "timeout waiting for second EOF reception"
ErrRemote == "exception"
\* serial.SerialException of a port that is not open
ErrPort == "port not open"

Res(c, o, outcome) ==
  [c |-> c, ops |-> o, outcome |-> outcome, value |-> <<>>, carried |-> <<>>,
   ack |-> <<>>, sink |-> <<>>, followIn |-> <<>>, followed |-> FALSE,
   untils |-> <<>>]

\* a variant of ReadUntil that hands the data to a consumer in every case
ReadUntil_AlwaysSink(c, ending, data_consumer) ==
  {[data |-> r.data, c |-> r.c, sink |-> <<r.data>>] :
     r \in SerialReadUntil(c, ending)}

\* a variant of NotIsPrompt in which isPrompt is called and finds no prompt
NotIsPrompt_Called == TRUE

\* Pyboard.read_until: the serial read, then data_consumer(data) if one is given
ReadUntil(c, ending, data_consumer) ==
  {[data |-> r.data, c |-> r.c,
    sink |-> IF data_consumer THEN <<r.data>> ELSE <<>>] :
     r \in SerialReadUntil(c, ending)}

\* `not self.isPrompt`: isPrompt is a bound method, never called here
NotIsPrompt == FALSE

EnterOps ==
  <<Op("write", CtrlC), Op("flushInput", <<>>), Op("write", CtrlA),
    Op("read_until", RawBanner)>>

\* a variant of BannerSeen that wants the read to hold the banner and no more
BannerSeen_Exact(data) == Vals(data) = RawBanner

\* data.endswith(b'raw REPL; CTRL-B to exit\r\n')
BannerSeen(data) == EndsWith(Vals(data), RawBanner)

enter_raw_repl(c, no) ==
  UNION {UNION {UNION {UNION {
    IF ~BannerSeen(r.data) \/ NotIsPrompt
    THEN {[Res(r.c, EnterOps, ErrEnter) EXCEPT !.untils = <<r.data>>]}
    ELSE {[Res(f2, Append(EnterOps, Op("flushInput", <<>>)), "ok")
             EXCEPT !.untils = <<r.data>>] : f2 \in SerialFlushInput(r.c)}
    : r \in ReadUntil(w2, RawBanner, FALSE)}
    : w2 \in SerialWrite(f1, CtrlA, no)}
    : f1 \in SerialFlushInput(w1)}
    : w1 \in SerialWrite(c, CtrlC, no)}

exit_raw_repl(c, no) ==
  {Res(w, <<Op("write", CtrlB)>>, "ok") : w \in SerialWrite(c, CtrlB, no)}

\* a variant of StripLast that keeps the sentinel
StripLast_Keep(data) == data

\* data[:-1]
StripLast(data) == SubSeq(data, 1, Len(data) - 1)

\* a variant of MissingEOT that never reports a missing sentinel
MissingEOT_Never(data) == FALSE

\* not data.endswith(b'\x04')
MissingEOT(data) == ~EndsWith(Vals(data), <<EOT>>)

follow(c, data_consumer) ==
  LET fin == Vals(c.inbuf \o c.wire)
      o1 == <<Op("read_until", <<EOT>>)>>
      o2 == Append(o1, Op("read_until", <<EOT>>))
      Out(cc, o, sk, u, msg) ==
        [Res(cc, o, msg) EXCEPT !.sink = sk, !.followIn = fin,
                                !.followed = TRUE, !.untils = u]
  IN UNION {
       IF MissingEOT(r1.data)
       THEN {Out(r1.c, o1, r1.sink, <<r1.data>>, ErrFirstEOF)}
       ELSE UNION {
         IF MissingEOT(r2.data)
         THEN {Out(r2.c, o2, r1.sink \o r2.sink, <<r1.data, r2.data>>,
                   ErrSecondEOF)}
         ELSE {[Out(f, Append(o2, Op("flushInput", <<>>)),
                    r1.sink \o r2.sink, <<r1.data, r2.data>>, "ok")
                  EXCEPT !.value = <<StripLast(r1.data), StripLast(r2.data)>>]
               : f \in SerialFlushInput(r2.c)}
         : r2 \in ReadUntil(r1.c, <<EOT>>, FALSE)}
       : r1 \in ReadUntil(c, <<EOT>>, data_consumer)}

\* a variant of Chunks that stops before a last chunk shorter than 256 bytes
RECURSIVE Chunks_NoTail(_, _)
Chunks_NoTail(command_bytes, i) ==
  IF i + ChunkSize > Len(command_bytes) THEN <<>>
  ELSE <<SubSeq(command_bytes, i + 1, i + ChunkSize)>>
         \o Chunks_NoTail(command_bytes, i + ChunkSize)

\* the slices command_bytes[i:min(i + 256, len)] for i in range(i, len, 256)
RECURSIVE Chunks(_, _)
Chunks(command_bytes, i) ==
  IF i >= Len(command_bytes) THEN <<>>
  ELSE <<SubSeq(command_bytes, i + 1,
                Min(i + ChunkSize, Len(command_bytes)))>>
         \o Chunks(command_bytes, i + ChunkSize)

\* the channel after the chunks cs are written one after the other
RECURSIVE WriteAll(_, _, _)
WriteAll(c, cs, no) ==
  IF cs = <<>> THEN {c}
  ELSE UNION {WriteAll(w, Tail(cs), no) : w \in SerialWrite(c, Head(cs), no)}

WriteOps(cs) == [k \in 1..Len(cs) |-> Op("write", cs[k])]

exec_raw_no_follow(c, command_bytes, no) ==
  LET cs == Chunks(command_bytes, 0)
      o == WriteOps(cs) \o <<Op("write", <<EOT>>), Op("read", <<2>>)>>
  IN UNION {UNION {
       {[Res(r.c, o, IF Vals(r.data) # OK THEN ErrExec ELSE "ok")
           EXCEPT !.ack = r.data]
        : r \in SerialRead(w2, 2)}
       : w2 \in SerialWrite(w1, <<EOT>>, no)}
       : w1 \in WriteAll(c, cs, no)}

\* a variant of exec_raw that tries exec_raw_no_follow once more when the ack
\* was not OK
exec_raw_Retry(c, command, data_consumer, no) ==
  UNION {
    IF a.outcome # "ok"
    THEN {[b EXCEPT !.ops = a.ops \o @] :
            b \in exec_raw_no_follow(a.c, command, no)}
    ELSE {[f EXCEPT !.ops = a.ops \o @, !.ack = a.ack] :
            f \in follow(a.c, data_consumer)}
    : a \in exec_raw_no_follow(c, command, no)}

\* a variant of exec_raw that calls follow whatever the ack was
exec_raw_FollowAnyway(c, command, data_consumer, no) ==
  UNION {
    {[f EXCEPT !.ops = a.ops \o @, !.ack = a.ack] :
       f \in follow(a.c, data_consumer)}
    : a \in exec_raw_no_follow(c, command, no)}

exec_raw(c, command, data_consumer, no) ==
  UNION {
    IF a.outcome # "ok" THEN {a}
    ELSE {[f EXCEPT !.ops = a.ops \o @, !.ack = a.ack] :
            f \in follow(a.c, data_consumer)}
    : a \in exec_raw_no_follow(c, command, no)}

\* a variant of exec_ that returns the normal output whatever ret_err holds
exec_NoRaise(c, command, no) ==
  {IF x.outcome # "ok" THEN x ELSE [x EXCEPT !.value = x.value[1]]
   : x \in exec_raw(c, command, FALSE, no)}

\* exec_: raises PyboardError('exception', ret, ret_err) when ret_err is not empty
exec_(c, command, no) ==
  {IF x.outcome # "ok" THEN x
   ELSE IF x.value[2] # <<>>
        THEN [x EXCEPT !.outcome = ErrRemote, !.value = <<>>,
                       !.carried = x.value]
        ELSE [x EXCEPT !.value = x.value[1]]
   : x \in exec_raw(c, command, FALSE, no)}

(***************************************************************************)
(* The raw delay.  Sessions are named; the session of the one-session      *)
(* parts of the model is "A".                                              *)
(***************************************************************************)
\* _rawdelay = None
None == "None"

\* rawdelay=0, the default of Pyboard.__init__
DefaultRawDelay == 0

\* Pyboard.__init__: global _rawdelay; _rawdelay = rawdelay
SetRawDelay(name, rawdelay) ==
  /\ _rawdelay' = rawdelay
  /\ sessions' = sessions \cup {[name |-> name, rawdelay |-> rawdelay]}

\* enter_raw_repl: if _rawdelay > 0: time.sleep(_rawdelay)
RawDelayPause(name) ==
  /\ slept' = Append(slept, [session |-> name,
                             seconds |-> IF _rawdelay > 0 THEN _rawdelay
                                         ELSE 0])
  /\ UNCHANGED <<_rawdelay, sessions>>

\* the module as imported: no session constructed
NoSession ==
  /\ _rawdelay = None
  /\ sessions = {}
  /\ slept = <<>>

\* one session, constructed with the default rawdelay
OneSession ==
  /\ _rawdelay = DefaultRawDelay
  /\ sessions = {[name |-> "A", rawdelay |-> DefaultRawDelay]}
  /\ slept = <<>>

(***************************************************************************)
(* A session used through its methods, in any order.                       *)
(***************************************************************************)
\* command payloads a caller submits in the session specifications
Commands == {<<>>, <<112>>}

NoCall == Res(<<>>, <<>>, "ok") @@ [call |-> "none"]

Channel == [inbuf |-> inbuf, wire |-> wire, mode |-> devMode]

\* a method's results on the session's channel; on a port that is not open
\* its first channel operation raises
OnChannel(results) ==
  IF chan = "open" THEN results ELSE {Res(Channel, <<>>, ErrPort)}

\* the session after a call `name` that ended as result r
Finish(name, r) ==
  /\ inbuf' = r.c.inbuf
  /\ wire' = r.c.wire
  /\ devMode' = r.c.mode
  /\ callNo' = callNo + 1
  /\ hist' = Append(hist, [call |-> name, outcome |-> r.outcome])
  /\ last' = [r EXCEPT !.c = <<>>] @@ [call |-> name]

\* the caller makes its next call; like the driver routines of the module,
\* it gives the session up once a call has raised
ApiCall ==
  /\ prog = "api"
  /\ callNo < MaxCalls
  /\ last.outcome = "ok"
  /\ UNCHANGED <<linkPrompt, devGood, prog, pc, ret_err, addrVars, relayVars>>

CallEnter ==
  /\ ApiCall
  /\ \E r \in OnChannel(enter_raw_repl(Channel, callNo + 1)) :
       Finish("enter_raw_repl", r)
  /\ UNCHANGED <<chan, closes, submitted>>
  /\ RawDelayPause("A")

CallExit ==
  /\ ApiCall
  /\ \E r \in OnChannel(exit_raw_repl(Channel, callNo + 1)) :
       Finish("exit_raw_repl", r)
  /\ UNCHANGED <<chan, closes, submitted>>
  /\ UNCHANGED delayVars

CallFollow ==
  /\ ApiCall
  /\ \E dc \in BOOLEAN : \E r \in OnChannel(follow(Channel, dc)) :
       Finish("follow", r)
  /\ UNCHANGED <<chan, closes, submitted>>
  /\ UNCHANGED delayVars

CallExecRaw ==
  /\ ApiCall
  /\ \E cmd \in Commands, dc \in BOOLEAN :
       /\ submitted' = cmd
       /\ \E r \in OnChannel(exec_raw(Channel, cmd, dc, callNo + 1)) :
            Finish("exec_raw", r)
  /\ UNCHANGED <<chan, closes>>
  /\ UNCHANGED delayVars

CallExec ==
  /\ ApiCall
  /\ \E cmd \in Commands :
       /\ submitted' = cmd
       /\ \E r \in OnChannel(exec_(Channel, cmd, callNo + 1)) :
            Finish("exec", r)
  /\ UNCHANGED <<chan, closes>>
  /\ UNCHANGED delayVars

\* Pyboard.close: serial.close()
close ==
  /\ chan' = IF chan = "open" THEN "closed" ELSE chan
  /\ closes' = closes + 1

CallClose ==
  /\ ApiCall
  /\ close
  /\ Finish("close", Res([Channel EXCEPT !.inbuf = <<>>], <<>>, "ok"))
  /\ UNCHANGED submitted
  /\ UNCHANGED delayVars

\* no address given yet
NoAddr ==
  /\ device = <<>>
  /\ transport = "none"

\* no relay built yet
NoRelay ==
  /\ relay = "none"
  /\ read_timeout = NoTimeout
  /\ tnSent = <<>>
  /\ tnReads = <<>>
  /\ tnFed = 0
  /\ fifo = <<>>
  /\ fifoInit = FALSE
  /\ rpc = "idle"
  /\ size = 0
  /\ timeout_count = 0
  /\ emptyPolls = 0
  /\ rret = <<>>
  /\ delivered = <<>>

\* the behaviours of the link and of the device
AnyEnv ==
  /\ linkPrompt \in BOOLEAN
  /\ devGood \in BOOLEAN

\* no device is talked to
NoEnv ==
  /\ linkPrompt = TRUE
  /\ devGood = TRUE

\* a session on a serial port, no method called yet
NewSession(state, mode, who, at) ==
  /\ chan = state
  /\ inbuf = <<>>
  /\ wire = <<>>
  /\ devMode = mode
  /\ callNo = 0
  /\ hist = <<>>
  /\ last = NoCall
  /\ submitted = <<>>
  /\ closes = 0
  /\ prog = who
  /\ pc = at
  /\ ret_err = <<>>

Init ==
  /\ AnyEnv
  /\ NewSession("open", "friendly", "api", "run")
  /\ NoAddr
  /\ NoRelay
  /\ OneSession

Next ==
  \/ CallEnter
  \/ CallExit
  \/ CallFollow
  \/ CallExecRaw
  \/ CallExec
  \/ CallClose

Spec == Init /\ [][Next]_vars

(***************************************************************************)
(* exec_raw_no_follow on payloads of one or more chunks, on a session that *)
(* has entered raw mode.                                                   *)
(***************************************************************************)
\* a payload of the given length; its bytes differ from their neighbours
CommandOf(len) == [i \in 1..len |-> 32 + (i % 95)]

CommandLens ==
  {k * ChunkSize + d : k \in 0..MaxChunks, d \in {0, 1, ChunkSize - 1}}

CallNoFollow ==
  /\ prog = "chunks"
  /\ callNo < 1
  /\ \E len \in CommandLens :
       /\ submitted' = CommandOf(len)
       /\ \E r \in OnChannel(exec_raw_no_follow(Channel, CommandOf(len),
                                                 callNo + 1)) :
            Finish("exec_raw_no_follow", r)
  /\ UNCHANGED <<linkPrompt, devGood, prog, pc, ret_err, chan, closes,
                 addrVars, relayVars>>
  /\ UNCHANGED delayVars

InitChunk ==
  /\ AnyEnv
  /\ NewSession("open", "raw", "chunks", "run")
  /\ NoAddr
  /\ NoRelay
  /\ OneSession

NextChunk == CallNoFollow

SpecChunk == InitChunk /\ [][NextChunk]_vars

(***************************************************************************)
(* Pyboard.__init__: the choice of the transport from the address string.  *)
(* An address is a sequence of one-character strings.                      *)
(***************************************************************************)
Digits == {"0", "1", "2", "3", "4", "5", "6", "7", "8", "9"}

\* characters an address is typed from: a digit, the dot, a letter
AddrChars == {"1", ".", "C"}

\* ch.isdigit()
IsDigit(ch) == ch \in Digits

\* str.count(ch)
RECURSIVE Count(_, _)
Count(str, ch) ==
  IF str = <<>> THEN 0
  ELSE (IF Head(str) = ch THEN 1 ELSE 0) + Count(Tail(str), ch)

\* a variant of LooksLikeIP that does not look at the last character
LooksLikeIP_FirstOnly(dev) ==
  /\ dev # <<>>
  /\ IsDigit(dev[1])
  /\ Count(dev, ".") = 3

\* device and device[0].isdigit() and device[-1].isdigit()
\*   and device.count('.') == 3
LooksLikeIP(dev) ==
  /\ dev # <<>>
  /\ IsDigit(dev[1])
  /\ IsDigit(dev[Len(dev)])
  /\ Count(dev, ".") = 3

\* the caller spells the address out
TypeChar ==
  /\ transport = "none"
  /\ Len(device) < MaxAddrLen
  /\ \E ch \in AddrChars : device' = Append(device, ch)
  /\ UNCHANGED <<transport, sessVars, relayVars>>
  /\ UNCHANGED delayVars

\* Pyboard.__init__ takes the telnet branch or the serial branch
SelectTransport ==
  /\ transport = "none"
  /\ transport' = IF LooksLikeIP(device) THEN "telnet" ELSE "serial"
  /\ UNCHANGED <<device, sessVars, relayVars>>
  /\ SetRawDelay("A", DefaultRawDelay)
  /\ UNCHANGED slept

InitAddr ==
  /\ NoEnv
  /\ NewSession("unopened", "friendly", "init", "run")
  /\ NoAddr
  /\ NoRelay
  /\ NoSession

NextAddr ==
  \/ TypeChar
  \/ SelectTransport

SpecAddr == InitAddr /\ [][NextAddr]_vars

(***************************************************************************)
(* TelnetToSerial.  During the login the telnet stream is a sequence of    *)
(* pieces of text; afterwards the relayed device's bytes are numbered in   *)
(* the order it sends them.                                                *)
(***************************************************************************)
LoginPrompt == <<"Login as:">>
PasswordPrompt == <<"Password:">>
\* b'Type "help()" for more information.'
ReadyExpected == <<"Type \"help()\" ", "for more information.">>
\* b'for more information.'
ReadyMark == <<"for more information.">>
\* bytes(user, 'ascii') + b"\r\n"
UserLine == <<"user", "\r\n">>
\* bytes(password, 'ascii') + b"\r\n"
PasswordLine == <<"password", "\r\n">>

\* what the login service sends on connection, after the user line and after
\* the password line
ServerGreets == {<<>>, <<"junk">>, LoginPrompt, <<"junk">> \o LoginPrompt}

ServerAfterUser == {<<>>, <<"junk">>, PasswordPrompt}

ServerAfterPassword ==
  {<<>>, <<"Login incorrect">>, ReadyExpected, <<"junk">> \o ReadyMark}

\* read_timeout values a relay is built with
ReadTimeouts == {NoTimeout} \cup 0..MaxReadTimeout

\* tn.read_until(expected, timeout) on the text d that arrives within the
\* timeout: up to and with the first `expected`, or all of d
TnReadUntil(d, e) ==
  LET ks == {k \in 1..Len(d) : EndsWith(SubSeq(d, 1, k), e)}
      m == IF ks = {} THEN Len(d) ELSE CHOOSE k \in ks : \A j \in ks : k <= j
  IN [data |-> SubSeq(d, 1, m), rest |-> Drop(d, m)]

\* a variant of PromptSeen that takes the prompt for seen
PromptSeen_Always(data, literal) == TRUE

\* literal in data
PromptSeen(data, literal) == Contains(data, literal)

\* a variant of Built in which the construction succeeds in every case
Built_Ready(state, sent, reads) ==
  [relay |-> "ready", sent |-> sent, reads |-> reads, fifoInit |-> TRUE]

Built(state, sent, reads) ==
  [relay |-> state, sent |-> sent, reads |-> reads,
   fifoInit |-> state = "ready"]

\* TelnetToSerial.__init__: the possible results, "failed" when it raises
TelnetToSerial__init__ ==
  UNION {
    LET r1 == TnReadUntil(g, LoginPrompt)
    IN IF ~PromptSeen(r1.data, LoginPrompt)
       THEN {Built("failed", <<>>, <<r1.data>>)}
       ELSE UNION {
         LET r2 == TnReadUntil(r1.rest \o p, PasswordPrompt)
         IN IF ~PromptSeen(r2.data, PasswordPrompt)
            THEN {Built("failed", <<UserLine>>, <<r1.data, r2.data>>)}
            ELSE {
              LET r3 == TnReadUntil(r2.rest \o b, ReadyExpected)
              IN Built(IF PromptSeen(r3.data, ReadyMark)
                       THEN "ready" ELSE "failed",
                       <<UserLine, PasswordLine>>,
                       <<r1.data, r2.data, r3.data>>)
              : b \in ServerAfterPassword}
         : p \in ServerAfterUser}
    : g \in ServerGreets}

Construct ==
  /\ relay = "none"
  /\ \E rt \in ReadTimeouts, r \in TelnetToSerial__init__ :
       /\ read_timeout' = rt
       /\ relay' = r.relay
       /\ tnSent' = r.sent
       /\ tnReads' = r.reads
       /\ fifoInit' = r.fifoInit
  /\ UNCHANGED <<tnFed, fifo, rpc, size, timeout_count, emptyPolls, rret,
                 delivered, sessVars, addrVars>>
  /\ UNCHANGED delayVars

\* tn.read_eager(): the bytes that have come in since the last poll
ReadEager ==
  {[i \in 1..k |-> tnFed + i] : k \in 0..Min(2, MaxFeed - tnFed)}

\* empty polls of one read the model follows
PollCap == 4 * MaxReadTimeout + 4

\* TelnetToSerial.read(size) is called
ReadCall ==
  /\ relay = "ready"
  /\ rpc = "idle"
  /\ \E sz \in 1..MaxSize : size' = sz
  /\ rpc' = "loop"
  /\ emptyPolls' = 0
  /\ UNCHANGED <<relay, read_timeout, tnSent, tnReads, tnFed, fifo, fifoInit,
                 timeout_count, rret, delivered, sessVars, addrVars>>
  /\ UNCHANGED delayVars

\* one turn of `while len(self.fifo) < size`
ReadPoll ==
  /\ rpc = "loop"
  /\ Len(fifo) < size
  /\ \E data \in ReadEager :
       LET entered == 0   \* timeout_count = 0, the first statement of the turn
       IN IF Len(data) # 0
          THEN /\ fifo' = fifo \o data
               /\ tnFed' = tnFed + Len(data)
               /\ timeout_count' = 0
               /\ emptyPolls' = 0
               /\ UNCHANGED <<rpc, rret, delivered>>
          ELSE /\ emptyPolls < PollCap
               /\ emptyPolls' = emptyPolls + 1
               /\ tnFed' = tnFed
               /\ IF read_timeout # NoTimeout /\ entered > 4 * read_timeout
                  THEN /\ timeout_count' = entered
                       /\ fifo' = Drop(fifo, size)
                       /\ rret' = [call |-> "read", value |-> Take(fifo, size)]
                       /\ delivered' = delivered \o Take(fifo, size)
                       /\ rpc' = "idle"
                  ELSE /\ timeout_count' = entered + 1
                       /\ UNCHANGED <<fifo, rpc, rret, delivered>>
  /\ UNCHANGED <<relay, read_timeout, tnSent, tnReads, fifoInit, size,
                 sessVars, addrVars>>
  /\ UNCHANGED delayVars

\* a variant of ReadDone that empties the fifo
ReadDone_DropsRest ==
  /\ rpc = "loop"
  /\ Len(fifo) >= size
  /\ fifo' = <<>>
  /\ rret' = [call |-> "read", value |-> Take(fifo, size)]
  /\ delivered' = delivered \o Take(fifo, size)
  /\ rpc' = "idle"
  /\ UNCHANGED <<relay, read_timeout, tnSent, tnReads, tnFed, fifoInit, size,
                 timeout_count, emptyPolls, sessVars, addrVars>>
  /\ UNCHANGED delayVars

\* the loop ends with enough bytes in the fifo; read pops size of them
ReadDone ==
  /\ rpc = "loop"
  /\ Len(fifo) >= size
  /\ fifo' = Drop(fifo, size)
  /\ rret' = [call |-> "read", value |-> Take(fifo, size)]
  /\ delivered' = delivered \o Take(fifo, size)
  /\ rpc' = "idle"
  /\ UNCHANGED <<relay, read_timeout, tnSent, tnReads, tnFed, fifoInit, size,
                 timeout_count, emptyPolls, sessVars, addrVars>>
  /\ UNCHANGED delayVars

\* a variant of inWaiting that polls whatever the fifo holds and returns what
\* the poll brought
inWaiting_PollsAlways ==
  /\ relay = "ready"
  /\ rpc = "idle"
  /\ \E data \in ReadEager :
       /\ fifo' = fifo \o data
       /\ tnFed' = tnFed + Len(data)
       /\ rret' = [call |-> "inWaiting", value |-> Len(data)]
  /\ UNCHANGED <<relay, read_timeout, tnSent, tnReads, fifoInit, rpc, size,
                 timeout_count, emptyPolls, delivered, sessVars, addrVars>>
  /\ UNCHANGED delayVars

\* TelnetToSerial.inWaiting
inWaiting ==
  /\ relay = "ready"
  /\ rpc = "idle"
  /\ IF Len(fifo) = 0
     THEN \E data \in ReadEager :
            /\ fifo' = fifo \o data
            /\ tnFed' = tnFed + Len(data)
            /\ rret' = [call |-> "inWaiting", value |-> Len(data)]
     ELSE /\ rret' = [call |-> "inWaiting", value |-> Len(fifo)]
          /\ UNCHANGED <<fifo, tnFed>>
  /\ UNCHANGED <<relay, read_timeout, tnSent, tnReads, fifoInit, rpc, size,
                 timeout_count, emptyPolls, delivered, sessVars, addrVars>>
  /\ UNCHANGED delayVars

InitRelay ==
  /\ NoEnv
  /\ NewSession("unopened", "friendly", "relay", "run")
  /\ NoAddr
  /\ NoRelay
  /\ NoSession

NextRelay ==
  \/ Construct
  \/ ReadCall
  \/ ReadPoll
  \/ ReadDone
  \/ inWaiting

SpecRelay == InitRelay /\ [][NextRelay]_vars

(***************************************************************************)
(* A session on a network address: Pyboard.serial is a TelnetToSerial.     *)
(* The Pyboard methods make the same calls on self.serial; a call of an    *)
(* operation the class does not define raises AttributeError.  In such a   *)
(* session inbuf holds the relay's fifo.                                   *)
(***************************************************************************)
\* the channel operations class TelnetToSerial defines
RelayProvides == {"read", "write", "inWaiting", "close"}

\* AttributeError: 'TelnetToSerial' object has no attribute ...
ErrAttribute == "AttributeError"

\* read_timeout=10, the value Pyboard.__init__ builds the relay with
SessionReadTimeout == 10

\* TelnetToSerial.read(sz) in a session: it returns once sz bytes have come
\* in, and polls on otherwise (the poll budget never runs out)
RelayRead(c, sz) ==
  IF Len(c.inbuf) + Len(c.wire) < sz THEN {}
  ELSE {LET a == Arrive(c, n)
        IN [data |-> SubSeq(a.inbuf, 1, sz),
            c |-> [a EXCEPT !.inbuf = Drop(@, sz)]] :
          n \in {IF sz > Len(c.inbuf) THEN sz - Len(c.inbuf) ELSE 0,
                  Len(c.wire)}}

\* one operation on the relay: TelnetToSerial.write hands the bytes to the
\* device, TelnetToSerial.read reads
RelayStep(c, h, no) ==
  CASE h.op = "write" ->
         {[c |-> w, data |-> <<>>] : w \in SerialWrite(c, h.arg, no)}
    [] h.op = "read" -> RelayRead(c, h.arg[1])
    [] OTHER -> {}

\* the operations o made one after the other on the relay: they stop with
\* AttributeError at the first one the relay does not define; `data` is what
\* the last operation read
RECURSIVE RunOnRelay(_, _, _)
RunOnRelay(c, o, no) ==
  IF o = <<>>
  THEN {[c |-> c, ops |-> <<>>, data |-> <<>>, outcome |-> "ok"]}
  ELSE IF Head(o).op \notin RelayProvides
       THEN {[c |-> c, ops |-> <<>>, data |-> <<>>, outcome |-> ErrAttribute]}
       ELSE UNION {
         {[r EXCEPT !.ops = <<Head(o)>> \o @,
                    !.data = IF Tail(o) = <<>> THEN st.data ELSE @]
          : r \in RunOnRelay(st.c, Tail(o), no)}
         : st \in RelayStep(c, Head(o), no)}

\* Pyboard.enter_raw_repl with self.serial a TelnetToSerial
RelayEnter(c, no) ==
  UNION {
    IF r.outcome # "ok" THEN {Res(r.c, r.ops, r.outcome)}
    ELSE IF ~BannerSeen(r.data) \/ NotIsPrompt
         THEN {[Res(r.c, r.ops, ErrEnter) EXCEPT !.untils = <<r.data>>]}
         ELSE {[Res(f.c, r.ops \o f.ops, f.outcome)
                  EXCEPT !.untils = <<r.data>>]
               : f \in RunOnRelay(r.c, <<Op("flushInput", <<>>)>>, no)}
    : r \in RunOnRelay(c, EnterOps, no)}

\* Pyboard.exit_raw_repl with self.serial a TelnetToSerial
RelayExit(c, no) ==
  {Res(r.c, r.ops, r.outcome) :
     r \in RunOnRelay(c, <<Op("write", CtrlB)>>, no)}

\* Pyboard.follow with self.serial a TelnetToSerial
RelayFollow(c, no) ==
  LET until == <<Op("read_until", <<EOT>>)>>
      Out(r, o, u, msg) ==
        [Res(r.c, o, msg) EXCEPT !.followed = TRUE, !.untils = u]
  IN UNION {
       IF r1.outcome # "ok" THEN {Out(r1, r1.ops, <<>>, r1.outcome)}
       ELSE IF MissingEOT(r1.data)
            THEN {Out(r1, r1.ops, <<r1.data>>, ErrFirstEOF)}
            ELSE UNION {
              IF r2.outcome # "ok"
              THEN {Out(r2, r1.ops \o r2.ops, <<r1.data>>, r2.outcome)}
              ELSE IF MissingEOT(r2.data)
                   THEN {Out(r2, r1.ops \o r2.ops, <<r1.data, r2.data>>,
                             ErrSecondEOF)}
                   ELSE {[Out(f, r1.ops \o r2.ops \o f.ops,
                              <<r1.data, r2.data>>, f.outcome)
                            EXCEPT !.value = IF f.outcome # "ok" THEN <<>>
                                             ELSE <<StripLast(r1.data),
                                                    StripLast(r2.data)>>]
                         : f \in RunOnRelay(r2.c,
                                            <<Op("flushInput", <<>>)>>, no)}
              : r2 \in RunOnRelay(r1.c, until, no)}
       : r1 \in RunOnRelay(c, until, no)}

\* Pyboard.exec_raw with self.serial a TelnetToSerial
RelayExecRaw(c, command, no) ==
  LET o == WriteOps(Chunks(command, 0))
             \o <<Op("write", <<EOT>>), Op("read", <<2>>)>>
  IN UNION {
       IF a.outcome # "ok" THEN {Res(a.c, a.ops, a.outcome)}
       ELSE IF Vals(a.data) # OK
            THEN {[Res(a.c, a.ops, ErrExec) EXCEPT !.ack = a.data]}
            ELSE {[f EXCEPT !.ops = a.ops \o @, !.ack = a.data]
                  : f \in RelayFollow(a.c, no)}
       : a \in RunOnRelay(c, o, no)}

\* the caller of a session on the relay makes its next call
TnCall ==
  /\ prog = "telnet"
  /\ callNo < MaxCalls
  /\ last.outcome = "ok"
  /\ UNCHANGED <<linkPrompt, devGood, prog, pc, ret_err, chan, closes,
                 addrVars, relayVars>>

TnEnter ==
  /\ TnCall
  /\ \E r \in RelayEnter(Channel, callNo + 1) : Finish("enter_raw_repl", r)
  /\ UNCHANGED submitted
  /\ RawDelayPause("A")

TnExit ==
  /\ TnCall
  /\ \E r \in RelayExit(Channel, callNo + 1) : Finish("exit_raw_repl", r)
  /\ UNCHANGED submitted
  /\ UNCHANGED delayVars

TnFollow ==
  /\ TnCall
  /\ \E r \in RelayFollow(Channel, callNo + 1) : Finish("follow", r)
  /\ UNCHANGED submitted
  /\ UNCHANGED delayVars

TnExecRaw ==
  /\ TnCall
  /\ \E cmd \in Commands :
       /\ submitted' = cmd
       /\ \E r \in RelayExecRaw(Channel, cmd, callNo + 1) :
            Finish("exec_raw", r)
  /\ UNCHANGED delayVars

\* a session built on a dotted-quad address after a login that succeeded; the
\* device is in either mode
InitTelnet ==
  /\ linkPrompt = TRUE
  /\ devGood \in BOOLEAN
  /\ \E mode \in {"friendly", "raw"} :
       NewSession("open", mode, "telnet", "run")
  /\ device = <<"1", ".", "1", ".", "1", ".", "1">>
  /\ transport = "telnet"
  /\ relay = "ready"
  /\ read_timeout = SessionReadTimeout
  /\ tnSent = <<UserLine, PasswordLine>>
  /\ tnReads = <<LoginPrompt, PasswordPrompt, ReadyExpected>>
  /\ tnFed = 0
  /\ fifo = <<>>
  /\ fifoInit = TRUE
  /\ rpc = "idle"
  /\ size = 0
  /\ timeout_count = 0
  /\ emptyPolls = 0
  /\ rret = <<>>
  /\ delivered = <<>>
  /\ OneSession

NextTelnet ==
  \/ TnEnter
  \/ TnExit
  \/ TnFollow
  \/ TnExecRaw

SpecTelnet == InitTelnet /\ [][NextTelnet]_vars

(***************************************************************************)
(* Several sessions in one process, each constructed with its own rawdelay *)
(* and each on a channel of its own (CallEnter has what enter_raw_repl     *)
(* does on the channel; here is its pause).                                *)
(***************************************************************************)
SessionNames == {"A", "B"}

\* rawdelay arguments tried
RawDelays == 0..MaxRawDelay

\* name = Pyboard(device, rawdelay=rd)
NewPyboard ==
  /\ prog = "sessions"
  /\ \E name \in SessionNames \ {r.name : r \in sessions},
        rd \in RawDelays : SetRawDelay(name, rd)
  /\ UNCHANGED <<slept, sessVars, addrVars, relayVars>>

\* name.enter_raw_repl(), up to the pause
EnterDelay ==
  /\ prog = "sessions"
  /\ Len(slept) < MaxEnters
  /\ \E r \in sessions : RawDelayPause(r.name)
  /\ UNCHANGED <<sessVars, addrVars, relayVars>>

InitDelay ==
  /\ NoEnv
  /\ NewSession("unopened", "friendly", "sessions", "run")
  /\ NoAddr
  /\ NoRelay
  /\ NoSession

NextDelay ==
  \/ NewPyboard
  \/ EnterDelay

SpecDelay == InitDelay /\ [][NextDelay]_vars

(***************************************************************************)
(* The driver routines: module-level execfile and main's execbuffer, one   *)
(* step per call they make.  pc is "start", then "constructed", "entered", *)
(* "executed", "exited", and at the end "returned" (the routine returned), *)
(* "exit1" (sys.exit(1)) or "raised" (an exception left the routine).      *)
(***************************************************************************)
Drivers == {"execfile", "execbuffer"}

\* where an exception with this message takes the routine: execbuffer catches
\* PyboardError and exits, anything else propagates; execfile catches nothing
OnError(msg) ==
  IF prog = "execbuffer" /\ msg # ErrPort THEN "exit1" ELSE "raised"

DrvFrame == UNCHANGED <<linkPrompt, devGood, prog, addrVars, relayVars>>

\* pyb = Pyboard(device, ...): the serial port opens, or the failure is printed
DrvConstruct ==
  /\ prog \in Drivers
  /\ pc = "start"
  /\ \E opens \in BOOLEAN : chan' = IF opens THEN "open" ELSE "unopened"
  /\ pc' = "constructed"
  /\ DrvFrame
  /\ UNCHANGED <<inbuf, wire, devMode, callNo, hist, last, submitted, closes,
                 ret_err>>
  /\ SetRawDelay("A", DefaultRawDelay)
  /\ UNCHANGED slept

\* pyb.enter_raw_repl()
DrvEnter ==
  /\ prog \in Drivers
  /\ pc = "constructed"
  /\ \E r \in OnChannel(enter_raw_repl(Channel, callNo + 1)) :
       /\ Finish("enter_raw_repl", r)
       /\ pc' = IF r.outcome = "ok" THEN "entered" ELSE OnError(r.outcome)
  /\ DrvFrame
  /\ UNCHANGED <<chan, closes, submitted, ret_err>>
  /\ RawDelayPause("A")

\* execbuffer: ret, ret_err = pyb.exec_raw(buf, timeout=None, data_consumer)
DrvExecRaw ==
  /\ prog = "execbuffer"
  /\ pc = "entered"
  /\ \E buf \in Commands, dc \in BOOLEAN :
       /\ submitted' = buf
       /\ \E r \in OnChannel(exec_raw(Channel, buf, dc, callNo + 1)) :
            /\ Finish("exec_raw", r)
            /\ pc' = IF r.outcome = "ok" THEN "executed"
                     ELSE OnError(r.outcome)
            /\ ret_err' = IF r.outcome = "ok" THEN r.value[2] ELSE ret_err
  /\ DrvFrame
  /\ UNCHANGED <<chan, closes>>
  /\ UNCHANGED delayVars

\* execfile: output = pyb.execfile(filename), that is exec_ of the file's bytes
DrvExecFile ==
  /\ prog = "execfile"
  /\ pc = "entered"
  /\ \E pyfile \in Commands :
       /\ submitted' = pyfile
       /\ \E r \in OnChannel(exec_(Channel, pyfile, callNo + 1)) :
            /\ Finish("execfile", r)
            /\ pc' = IF r.outcome = "ok" THEN "executed"
                     ELSE OnError(r.outcome)
  /\ DrvFrame
  /\ UNCHANGED <<chan, closes, ret_err>>
  /\ UNCHANGED delayVars

\* pyb.exit_raw_repl()
DrvExit ==
  /\ prog \in Drivers
  /\ pc = "executed"
  /\ \E r \in OnChannel(exit_raw_repl(Channel, callNo + 1)) :
       /\ Finish("exit_raw_repl", r)
       /\ pc' = IF r.outcome = "ok" THEN "exited" ELSE OnError(r.outcome)
  /\ DrvFrame
  /\ UNCHANGED <<chan, closes, submitted, ret_err>>
  /\ UNCHANGED delayVars

\* pyb.close(), and the end of the routine: execbuffer exits with 1 when
\* ret_err is not empty
DrvClose ==
  /\ prog \in Drivers
  /\ pc = "exited"
  /\ close
  /\ Finish("close", Res([Channel EXCEPT !.inbuf = <<>>], <<>>, "ok"))
  /\ pc' = IF prog = "execbuffer" /\ ret_err # <<>> THEN "exit1"
           ELSE "returned"
  /\ DrvFrame
  /\ UNCHANGED <<submitted, ret_err>>
  /\ UNCHANGED delayVars

\* KeyboardInterrupt during a call: execbuffer exits with 1, execfile lets it
\* propagate
DrvInterrupt ==
  /\ prog \in Drivers
  /\ pc \in {"constructed", "entered", "executed", "exited"}
  /\ pc' = IF prog = "execbuffer" THEN "exit1" ELSE "raised"
  /\ DrvFrame
  /\ UNCHANGED <<chan, inbuf, wire, devMode, callNo, hist, last, submitted,
                 closes, ret_err>>
  /\ UNCHANGED delayVars

InitDriver ==
  /\ AnyEnv
  /\ prog \in Drivers
  /\ NewSession("unopened", "friendly", prog, "start")
  /\ NoAddr
  /\ NoRelay
  /\ NoSession

NextDriver ==
  \/ DrvConstruct
  \/ DrvEnter
  \/ DrvExecRaw
  \/ DrvExecFile
  \/ DrvExit
  \/ DrvClose
  \/ DrvInterrupt

SpecDriver == InitDriver /\ [][NextDriver]_vars

(***************************************************************************)
(* Properties of the session.                                              *)
(***************************************************************************)
\* positions of the sentinel in a byte string
EOTs(s) == {i \in 1..Len(s) : s[i] = EOT}

NthEOT(s, k) ==
  CHOOSE i \in EOTs(s) : Cardinality({j \in EOTs(s) : j <= i}) = k

\* the last call let follow run, as follow itself or inside exec_raw
FollowRan == last.call \in {"follow", "exec_raw"} /\ last.followed

\* C1: when the device bytes ahead of follow are N + 0x04 + E + 0x04 (+ more),
\* N and E free of 0x04, a follow that returns returns exactly (N, E), and on
\* a prompt link follow does return.
C1_FollowSplitsResponse ==
  (FollowRan /\ Cardinality(EOTs(last.followIn)) >= 2) =>
    LET i == NthEOT(last.followIn, 1)
        j == NthEOT(last.followIn, 2)
    IN /\ linkPrompt => last.outcome = "ok"
       /\ last.outcome = "ok" =>
            /\ Vals(last.value[1]) = SubSeq(last.followIn, 1, i - 1)
            /\ Vals(last.value[2]) = SubSeq(last.followIn, i + 1, j - 1)

\* C1 witness: follow returned a non-empty normal-output and an empty
\* error-output, the sentinels stripped
C1_Witness ==
  /\ FollowRan
  /\ last.outcome = "ok"
  /\ last.followIn = <<97, EOT, EOT>>
  /\ Vals(last.value[1]) = <<97>>
  /\ last.value[2] = <<>>

\* C2: follow returns a pair only after two reads that each end with 0x04; a
\* first read without it raises the first-EOF error, a second read without it
\* the second-EOF error, and then nothing is returned.
C2_FollowNeedsBothSentinels ==
  FollowRan =>
    LET u == last.untils
    IN /\ Len(u) >= 1
       /\ ~EndsWith(Vals(u[1]), <<EOT>>) =>
            /\ last.outcome = ErrFirstEOF
            /\ last.value = <<>>
            /\ Len(u) = 1
       /\ (Len(u) = 2 /\ ~EndsWith(Vals(u[2]), <<EOT>>)) =>
            /\ last.outcome = ErrSecondEOF
            /\ last.value = <<>>
       /\ last.outcome = "ok" =>
            /\ Len(u) = 2
            /\ EndsWith(Vals(u[1]), <<EOT>>)
            /\ EndsWith(Vals(u[2]), <<EOT>>)

\* C2 witness: the first read brought bytes but no sentinel, and follow raised
C2_Witness ==
  /\ FollowRan
  /\ last.outcome = ErrFirstEOF
  /\ last.untils # <<>>
  /\ last.untils[1] # <<>>

\* C3: in an exec_raw that follows an exec_raw that returned, every byte read
\* (as ack, normal-output or error-output) was emitted by the device in answer
\* to this call, none in answer to an earlier one.
C3_NoLeakIntoNextCommand ==
  (/\ Len(hist) >= 2
   /\ hist[Len(hist) - 1] = [call |-> "exec_raw", outcome |-> "ok"]
   /\ last.call = "exec_raw") =>
    Origins(last.ack)
      \cup UNION {Origins(last.untils[k]) : k \in 1..Len(last.untils)}
      \subseteq {callNo}

\* C4: exec raises the remote error with (normal-output, error-output) when
\* the error-output exec_raw returned is not empty, and returns the
\* normal-output when it is empty.
C4_ExecRaisesOnErrorOutput ==
  (/\ last.call = "exec"
   /\ Len(last.untils) = 2
   /\ EndsWith(Vals(last.untils[1]), <<EOT>>)
   /\ EndsWith(Vals(last.untils[2]), <<EOT>>)) =>
    LET n == SubSeq(last.untils[1], 1, Len(last.untils[1]) - 1)
        e == SubSeq(last.untils[2], 1, Len(last.untils[2]) - 1)
    IN IF e # <<>>
       THEN /\ last.outcome = ErrRemote
            /\ last.carried = <<n, e>>
            /\ last.value = <<>>
       ELSE /\ last.outcome = "ok"
            /\ last.value = n

\* C4 witness: exec raised the remote error with a non-empty error-output
C4_Witness ==
  /\ last.call = "exec"
  /\ last.outcome = ErrRemote
  /\ Vals(last.carried[2]) = <<97>>

\* the calls made so far and how each ended
Calls == [k \in 1..Len(hist) |-> hist[k].call]

\* C6: against a well-behaved device on a prompt link, enter_raw_repl,
\* exit_raw_repl, enter_raw_repl ends with the second entry succeeding,
\* whatever the device emitted in between.
C6_ReenterAfterExit ==
  (/\ devGood
   /\ linkPrompt
   /\ Calls = <<"enter_raw_repl", "exit_raw_repl", "enter_raw_repl">>) =>
    last.outcome = "ok"

\* C6 witness: the second entry succeeded and its read brought stale bytes
\* ahead of the banner
C6_Witness ==
  /\ devGood
  /\ linkPrompt
  /\ Calls = <<"enter_raw_repl", "exit_raw_repl", "enter_raw_repl">>
  /\ last.outcome = "ok"
  /\ Len(last.untils[1]) > Len(RawBanner)


\* the errors of the raw-REPL protocol
ProtocolErrors == {ErrEnter, ErrExec, ErrFirstEOF, ErrSecondEOF}

\* how many times the operation x is in the list o
CountOp(o, x) == Cardinality({k \in 1..Len(o) : o[k] = x})

\* C11: a call that fails with a protocol error leaves the channel open and
\* unclosed, returns nothing, ends with the read that failed (no write after
\* it) and made the failed step once only: one banner read after one entry
\* write, one ack read after one end-of-command write, one first-sentinel
\* read, or one second-sentinel read after the first.
C11_ProtocolErrorNoCloseNoRetry ==
  last.outcome \in ProtocolErrors =>
    /\ chan = "open"
    /\ closes = 0
    /\ last.value = <<>>
    /\ last.ops # <<>>
    /\ last.ops[Len(last.ops)].op \in {"read", "read_until"}
    /\ last.outcome = ErrEnter =>
         /\ CountOp(last.ops, Op("write", CtrlA)) = 1
         /\ CountOp(last.ops, Op("read_until", RawBanner)) = 1
    /\ last.outcome = ErrExec =>
         /\ CountOp(last.ops, Op("write", <<EOT>>)) = 1
         /\ CountOp(last.ops, Op("read", <<2>>)) = 1
         /\ CountOp(last.ops, Op("read_until", <<EOT>>)) = 0
    /\ last.outcome = ErrFirstEOF =>
         CountOp(last.ops, Op("read_until", <<EOT>>)) = 1
    /\ last.outcome = ErrSecondEOF =>
         CountOp(last.ops, Op("read_until", <<EOT>>)) = 2

\* C11 witness: exec_raw raised on an ack that was not OK, after an entry
\* that had succeeded
C11_Witness ==
  /\ last.call = "exec_raw"
  /\ last.outcome = ErrExec
  /\ Len(hist) = 2
  /\ hist[1] = [call |-> "enter_raw_repl", outcome |-> "ok"]
  /\ chan = "open"

\* C13: enter_raw_repl writes 0x0D 0x03 0x03, flushes the input, writes
\* 0x0D 0x01 and reads until the banner, in this order; it returns exactly
\* when the bytes read end with the banner, flushing the input once more on
\* that path only, and raises 'could not enter raw repl' otherwise.
C13_EnterOrderAndOutcome ==
  (last.call = "enter_raw_repl" /\ last.outcome # ErrPort) =>
    LET o == last.ops
        first4 ==
          <<Op("write", <<13, 3, 3>>), Op("flushInput", <<>>),
            Op("write", <<13, 1>>), Op("read_until", RawBanner)>>
    IN /\ Len(o) >= 4
       /\ SubSeq(o, 1, 4) = first4
       /\ Len(last.untils) = 1
       /\ last.outcome = "ok" <=> EndsWith(Vals(last.untils[1]), RawBanner)
       /\ last.outcome = "ok" => o = Append(first4, Op("flushInput", <<>>))
       /\ last.outcome # "ok" => (last.outcome = ErrEnter /\ o = first4)

\* C13 witness: an entry that succeeded and flushed the input twice
C13_Witness ==
  /\ Calls = <<"enter_raw_repl">>
  /\ last.outcome = "ok"
  /\ CountOp(last.ops, Op("flushInput", <<>>)) = 2
  /\ Vals(last.untils[1]) = RawBanner

\* C14: exec_raw writes 0x04 once, after the payload, then reads 2 bytes once;
\* when they are 'OK' follow runs, and for any other ack (short and empty
\* ones too) the call raises 'could not exec command' with that read as its
\* last channel operation: follow did not run and read nothing.
C14_AckGatesFollow ==
  (last.call \in {"exec_raw", "exec"} /\ last.outcome # ErrPort) =>
    LET o == last.ops
        k == Len(Chunks(submitted, 0)) + 1
    IN /\ CountOp(o, Op("write", <<EOT>>)) = 1
       /\ CountOp(o, Op("read", <<2>>)) = 1
       /\ Len(o) >= k + 1
       /\ \A j \in 1..(k - 1) : o[j].op = "write" /\ o[j].arg # <<EOT>>
       /\ o[k] = Op("write", <<EOT>>)
       /\ o[k + 1] = Op("read", <<2>>)
       /\ Len(last.ack) <= 2
       /\ Vals(last.ack) = OK => (last.followed /\ last.outcome # ErrExec)
       /\ Vals(last.ack) # OK =>
            /\ last.outcome = ErrExec
            /\ ~last.followed
            /\ Len(o) = k + 1
            /\ last.untils = <<>>
            /\ last.sink = <<>>

\* C14 witness: the ack read brought bytes that were not 'OK' and exec_raw
\* raised without follow
C14_Witness ==
  /\ last.call = "exec_raw"
  /\ last.outcome = ErrExec
  /\ last.ack # <<>>
  /\ ~last.followed

\* C15: the sink of follow is handed the bytes of the first read and nothing
\* else, never the bytes of the second read; without a sink nothing is handed
\* over, and follow ends the same way and returns the same pair with and
\* without a sink.
C15_SinkFirstPassOnly ==
  LET NoSink(r) == [r EXCEPT !.sink = <<>>]
  IN /\ FollowRan =>
          /\ Len(last.sink) <= 1
          /\ last.sink # <<>> => last.sink[1] = last.untils[1]
     /\ \A r \in follow(Channel, FALSE) : r.sink = <<>>
     /\ \A r \in follow(Channel, TRUE) : r.sink = <<r.untils[1]>>
     /\ {NoSink(r) : r \in follow(Channel, TRUE)} = follow(Channel, FALSE)

\* C15 witness: follow with a sink returned a non-empty error-output and the
\* sink got the first read only
C15_Witness ==
  /\ FollowRan
  /\ last.outcome = "ok"
  /\ Vals(last.value[2]) = <<97>>
  /\ last.sink = <<last.untils[1]>>
  /\ Len(last.untils) = 2

(***************************************************************************)
(* Properties of exec_raw_no_follow's chunking.                            *)
(***************************************************************************)
\* the first operation that writes the end-of-command byte
EndOfCommandAt(o) ==
  CHOOSE k \in 1..Len(o) :
    /\ o[k] = Op("write", <<EOT>>)
    /\ \A j \in 1..(k - 1) : o[j] # Op("write", <<EOT>>)

RECURSIVE Concat(_)
Concat(ss) == IF ss = <<>> THEN <<>> ELSE Head(ss) \o Concat(Tail(ss))

\* C5: what exec_raw_no_follow writes before the terminating 0x04 is a run of
\* writes of 1 to 256 bytes each whose concatenation is the payload.
C5_ChunksConcatToPayload ==
  (last.call = "exec_raw_no_follow" /\ last.outcome # ErrPort) =>
    LET k == EndOfCommandAt(last.ops)
        w == SubSeq(last.ops, 1, k - 1)
    IN /\ \A j \in 1..Len(w) :
            /\ w[j].op = "write"
            /\ Len(w[j].arg) \in 1..ChunkSize
       /\ Concat([j \in 1..Len(w) |-> w[j].arg]) = submitted

\* C5 witness: a payload of two full chunks and one byte went out as three
\* writes
C5_Witness ==
  /\ last.call = "exec_raw_no_follow"
  /\ Len(submitted) = 2 * ChunkSize + 1
  /\ EndOfCommandAt(last.ops) = 4


(***************************************************************************)
(* Properties of the transport selection.                                  *)
(***************************************************************************)
DotsOf(dev) == {i \in 1..Len(dev) : dev[i] = "."}

\* C7: the telnet transport is chosen exactly for a non-empty address whose
\* first and last characters are digits and that holds exactly three dots;
\* every other address gets the serial transport.
C7_TransportSelection ==
  transport # "none" =>
    /\ transport \in {"telnet", "serial"}
    /\ transport = "telnet" <=>
         /\ Len(device) > 0
         /\ device[1] \in Digits
         /\ device[Len(device)] \in Digits
         /\ Cardinality(DotsOf(device)) = 3

\* C7 witness: a dotted quad was taken for a network address
C7_Witness ==
  /\ transport = "telnet"
  /\ device = <<"1", ".", "1", ".", "1", ".", "1">>


(***************************************************************************)
(* Properties of the relay.                                                *)
(***************************************************************************)
\* C8: a read of a relay with a read timeout stops polling once more than
\* 4 x read_timeout consecutive polls have brought nothing: it never makes
\* more than 4 x read_timeout + 2 such polls.
C8_ReadStopsAtPollBudget ==
  (rpc = "loop" /\ read_timeout # NoTimeout) =>
    emptyPolls <= 4 * read_timeout + 2

\* C10: when the text read while waiting for the login prompt does not hold
\* 'Login as:', the construction fails: no relay, no fifo, and nothing was
\* written to the connection.
C10_NoLoginPromptFails ==
  (tnReads # <<>> /\ ~Contains(tnReads[1], LoginPrompt)) =>
    /\ relay = "failed"
    /\ ~fifoInit
    /\ tnSent = <<>>

\* C10 witness: the service sent text without the login prompt and the
\* construction failed
C10_Witness ==
  /\ tnReads = <<(<<"junk">>)>>
  /\ relay = "failed"


\* what the text read at each step of the login must hold
LoginMarks == <<LoginPrompt, PasswordPrompt, ReadyMark>>

\* C16: the construction reads for 'Login as:', then for 'Password:', then for
\* the ready banner; the user line was written only after a read that held
\* 'Login as:', the password line only after a read that held 'Password:',
\* the fifo exists only after a read that held 'for more information.', and a
\* read without its prompt is the last step: the construction fails, with
\* nothing written or read after it.
C16_LoginStepsInOrder ==
  relay # "none" =>
    LET n == Len(tnReads)
    IN /\ relay \in {"ready", "failed"}
       /\ n \in 1..3
       /\ tnSent = SubSeq(<<UserLine, PasswordLine>>, 1, Len(tnSent))
       /\ Len(tnSent) >= 1 => Contains(tnReads[1], LoginPrompt)
       /\ Len(tnSent) >= 2 => Contains(tnReads[2], PasswordPrompt)
       /\ fifoInit <=> relay = "ready"
       /\ relay = "ready" =>
            /\ n = 3
            /\ Len(tnSent) = 2
            /\ Contains(tnReads[3], ReadyMark)
       /\ \A k \in 1..n :
            ~Contains(tnReads[k], LoginMarks[k]) =>
              /\ relay = "failed"
              /\ n = k
              /\ Len(tnSent) = k - 1

\* C16 witness: a login that went through the three steps, the ready text
\* holding 'for more information.' behind other text
C16_Witness ==
  /\ relay = "ready"
  /\ fifoInit
  /\ tnSent = <<UserLine, PasswordLine>>
  /\ tnReads[3] = <<"junk">> \o ReadyMark

\* C17: the bytes the reads have returned, followed by the bytes in the fifo,
\* are the bytes pulled from the connection in the order they came: nothing
\* is dropped, doubled or moved; and a read returns at most size bytes, the
\* last ones delivered.
C17_FifoKeepsOrder ==
  /\ delivered \o fifo = [i \in 1..tnFed |-> i]
  /\ (rpc = "idle" /\ DOMAIN rret # {} /\ rret.call = "read") =>
       /\ Len(rret.value) <= size
       /\ EndsWith(delivered, rret.value)

\* C17 witness: a second read returned one byte and left one in the fifo
C17_Witness ==
  /\ rpc = "idle"
  /\ DOMAIN rret # {}
  /\ rret.call = "read"
  /\ size = 1
  /\ delivered = <<1, 2>>
  /\ fifo = <<3>>

\* a call of inWaiting: the relay is ready and no read is in progress, before
\* and after
InWaitingStep == relay = "ready" /\ rpc = "idle" /\ rpc' = "idle"

\* C18: inWaiting on a non-empty fifo returns its depth and pulls nothing; on
\* an empty fifo it appends the bytes of one poll and returns their number; in
\* both cases the value returned is the depth of the fifo after the call.
C18_InWaitingReturnsDepth ==
  [][InWaitingStep =>
       /\ rret'.call = "inWaiting"
       /\ rret'.value = Len(fifo')
       /\ delivered' = delivered
       /\ fifo # <<>> => (fifo' = fifo /\ tnFed' = tnFed)
       /\ fifo = <<>> =>
            /\ rret'.value = tnFed' - tnFed
            /\ fifo' = [i \in 1..(tnFed' - tnFed) |-> tnFed + i]]_vars

\* C18 witness: inWaiting on an empty fifo pulled two bytes and returned 2
C18_Witness ==
  /\ rpc = "idle"
  /\ DOMAIN rret # {}
  /\ rret.call = "inWaiting"
  /\ rret.value = 2
  /\ fifo = <<1, 2>>
  /\ delivered = <<>>

(***************************************************************************)
(* Properties of the driver routines.                                      *)
(***************************************************************************)
\* control has left the driver routine
Left == prog \in Drivers /\ pc \in {"returned", "exit1", "raised"}

\* C9: when control leaves execfile or execbuffer, a channel that was opened
\* has been closed, by exactly one call of close.
C9_ClosedOnceOnEveryExit ==
  (Left /\ chan # "unopened") => (chan = "closed" /\ closes = 1)

C19_RelayProvidesEveryOperation ==
  transport = "telnet" => last.outcome # ErrAttribute

(***************************************************************************)
(* Properties of the raw delay.                                            *)
(***************************************************************************)
\* the rawdelay the session of this name was constructed with
RawDelayOf(name) == (CHOOSE r \in sessions : r.name = name).rawdelay

\* C20: every pause of enter_raw_repl lasts the rawdelay its own session was
\* constructed with, whatever other sessions were constructed before or
\* after it.
C20_PauseIsOwnRawDelay ==
  \A k \in 1..Len(slept) : slept[k].seconds = RawDelayOf(slept[k].session)

=============================================================================
